---- MODULE Spec2Model ----
(***************************************************************************)
(* A model of the directory-listing VFS experiment (src/main.rs):          *)
(*   - the trait vfs::Vfs with its one operation list_files,               *)
(*   - its implementor TokioVfs, which opens the directory, wraps the OS   *)
(*     iteration handle as a stream and maps every raw entry to a path     *)
(*     result,                                                             *)
(*   - main, which lists the current directory, logs every element of the  *)
(*     stream and then logs "done".                                        *)
(*                                                                         *)
(* Spec     is the program: one task, main, on the current directory.      *)
(* SpecConc is the provider object used by several callers at once, each   *)
(*          of which may consume its stream or drop it early.              *)
(*                                                                         *)
(* The OS iteration handle is modelled at the interface the source uses:   *)
(* one call of the stream's next on it hands over one raw entry.           *)
(***************************************************************************)
EXTENDS Naturals, Sequences, FiniteSets

\* ---------------------------------------------------------------- bounds
\* The longest raw scan (entries and per-entry failures) of a directory.
MaxEntries == 3
\* The number of call sites that use the provider object.
NumCallers == 2

\* ------------------------------------------------------- the file system
Callers == 1..NumCallers
\* The task running main.
Main == 1

\* The paths callers pass to list_files; Cwd is what current_dir() returns.
Cwd == "/d"
Other == "/e"
Paths == {Cwd, Other}

FileNames == {"a", "b"}
IoErrors == {"EIO"}
OpenErrors == {"NotFound", "NotADirectory", "PermissionDenied"}

\* What the OS iterator hands over for one entry: io::Result<DirEntry>.
\* A DirEntry knows the directory it was read from and its file name.
RawOk(dir, name) == [tag |-> "Ok", dir |-> dir, name |-> name]
RawErr(e) == [tag |-> "Err", error |-> e]
RawItems(dir) == {RawOk(dir, n) : n \in FileNames} \cup {RawErr(e) : e \in IoErrors}

SeqsUpTo(S, n) == UNION {[1..k -> S] : k \in 0..n}

\* The OS never lists one name twice in one scan.
NoRepeatedName(s) ==
    \A i, j \in 1..Len(s) :
        (i # j /\ s[i].tag = "Ok" /\ s[j].tag = "Ok") => s[i].name # s[j].name

Scans(dir) == {s \in SeqsUpTo(RawItems(dir), MaxEntries) : NoRepeatedName(s)}

\* A path is either a directory that scans as `scan`, or fails to open.
DirState(dir) ==
    {[kind |-> "dir", scan |-> s] : s \in Scans(dir)}
    \cup {[kind |-> k, scan |-> <<>>] : k \in OpenErrors}

\* ------------------------------------------------------------- variables
VARIABLES
    fs,         \* path -> what the OS holds there
    alive,      \* FALSE once the process has terminated by a panic
    handles,    \* the OS directory handles opened so far, by descriptor
    pc,         \* caller -> its position
    arg,        \* caller -> the path it passed to list_files
    stream,     \* caller -> the PathStream it holds
    phase,      \* caller -> the state of its sequence
    requested,  \* caller -> how many times it asked its stream for an element
    yielded,    \* caller -> the elements its stream has produced, in order
    log         \* the lines main has logged, in order

vars == <<fs, alive, handles, pc, arg, stream, phase, requested, yielded, log>>

\* ------------------------------------------------- the OS directory handle
\* tokio::fs::read_dir(path): a fresh OS handle positioned before the first
\* entry, or the reason the directory could not be opened.
NewHandle(path) == [path |-> path, pos |-> 0, fetches |-> 0, eof |-> FALSE, open |-> TRUE]

\* A mutation of read_dir: a directory that is already open is not opened
\* again, the open handle is handed out a second time.
read_dir_shared(path, hs) ==
    IF fs[path].kind # "dir"
    THEN [tag |-> "Err", error |-> fs[path].kind, fd |-> 0, handles |-> hs]
    ELSE IF \E i \in 1..Len(hs) : hs[i].path = path /\ hs[i].open
    THEN [tag |-> "Ok",
          fd |-> CHOOSE i \in 1..Len(hs) : hs[i].path = path /\ hs[i].open,
          handles |-> hs]
    ELSE [tag |-> "Ok", fd |-> Len(hs) + 1, handles |-> Append(hs, NewHandle(path))]

read_dir(path, hs) ==
    IF fs[path].kind = "dir"
    THEN [tag |-> "Ok", fd |-> Len(hs) + 1, handles |-> Append(hs, NewHandle(path))]
    ELSE [tag |-> "Err", error |-> fs[path].kind, fd |-> 0, handles |-> hs]

None == [tag |-> "None"]

\* One step of the OS iterator behind descriptor fd: the next raw entry of
\* the scan, or None when the scan is over.
os_next(hs, fd) ==
    LET h == hs[fd]
        scan == fs[h.path].scan
    IN  IF h.pos < Len(scan)
        THEN [item |-> scan[h.pos + 1],
              handles |-> [hs EXCEPT ![fd].pos = h.pos + 1,
                                     ![fd].fetches = h.fetches + 1]]
        ELSE [item |-> None,
              handles |-> [hs EXCEPT ![fd].eof = TRUE,
                                     ![fd].fetches = h.fetches + 1]]

\* A mutation of drop: the stream is forgotten and its handle stays open.
drop_leak(st, hs) == hs

\* Closing the handle when its owner goes out of scope.
drop(st, hs) == [hs EXCEPT ![st.fd].open = FALSE]

\* What the OS does with a terminated process's handles.
CloseAll(hs) == [i \in 1..Len(hs) |-> [hs[i] EXCEPT !.open = FALSE]]

\* ------------------------------------------------------------ TokioVfs
\* A mutation of path: the file name alone, without the directory.
path_file_name(x) == <<x.name>>

\* DirEntry::path(): the directory's path joined with the file name.
path(x) == <<x.dir, x.name>>

\* |entry| entry.context("context").map(|x| x.path())
PathOk(p) == [tag |-> "Ok", path |-> p]
PathErr(ctx, e) == [tag |-> "Err", context |-> ctx, source |-> e]

\* A mutation of closure: the error is passed on without its context.
closure_no_context(entry) ==
    IF entry.tag = "Ok" THEN PathOk(path(entry)) ELSE PathErr("", entry.error)

closure(entry) ==
    IF entry.tag = "Ok" THEN PathOk(path(entry)) ELSE PathErr("context", entry.error)

\* ReadDirStream::new(read_dir) under .map(closure), boxed and pinned.
NoStream == [fd |-> 0]
PathStream(fd) == [fd |-> fd]

\* A mutation of list_files: the whole scan is read before the stream is
\* handed back.
list_files_eager(p, hs) ==
    LET read == read_dir(p, hs)
        n == Len(fs[p].scan)
    IN  IF read.tag = "Err"
        THEN [panic |-> TRUE, stream |-> NoStream, handles |-> hs]
        ELSE [panic |-> FALSE, stream |-> PathStream(read.fd),
              handles |-> [read.handles EXCEPT ![read.fd].pos = n,
                                               ![read.fd].fetches = n + 1,
                                               ![read.fd].eof = TRUE]]

\* A mutation of list_files: a directory that does not open is listed as
\* an empty one instead of panicking.
list_files_swallow(p, hs) ==
    LET read == read_dir(p, hs)
    IN  IF read.tag = "Err"
        THEN [panic |-> FALSE, stream |-> PathStream(Len(hs) + 1),
              handles |-> Append(hs, NewHandle(p))]
        ELSE [panic |-> FALSE, stream |-> PathStream(read.fd), handles |-> read.handles]

\* TokioVfs::list_files: open, unwrap, wrap, map, box.  Nothing is read here.
list_files(p, hs) ==
    LET read == read_dir(p, hs)
    IN  IF read.tag = "Err"
        THEN [panic |-> TRUE, stream |-> NoStream, handles |-> hs]
        ELSE [panic |-> FALSE, stream |-> PathStream(read.fd), handles |-> read.handles]

\* A mutation of poll_next: the stream ends at the first failed entry.
poll_next_stop_at_err(st, hs) ==
    LET r == os_next(hs, st.fd)
    IN  [item |-> IF r.item = None \/ r.item.tag = "Err" THEN None ELSE closure(r.item),
         handles |-> r.handles]

\* A mutation of poll_next: one entry is read ahead of the one handed over.
poll_next_lookahead(st, hs) ==
    LET r == os_next(hs, st.fd)
        ahead == os_next(r.handles, st.fd)
    IN  [item |-> IF r.item = None THEN None ELSE closure(r.item),
         handles |-> IF r.item = None THEN r.handles ELSE ahead.handles]

\* Stream::poll_next of the mapped stream: one raw entry through the closure.
poll_next(st, hs) ==
    LET r == os_next(hs, st.fd)
    IN  [item |-> IF r.item = None THEN None ELSE closure(r.item),
         handles |-> r.handles]

\* -------------------------------------------------------------- logging
InfoPath(item) == [level |-> "info", path |-> item]
InfoDone == [level |-> "info", message |-> "done"]

\* ----------------------------------------------------------------- Init
\* The other path holds a small directory of its own.
OtherDir == [kind |-> "dir", scan |-> <<RawOk(Other, "b")>>]

\* Every state the current directory can be in; nothing has run yet.
Init ==
    /\ \E d \in DirState(Cwd) : fs = [p \in Paths |-> IF p = Cwd THEN d ELSE OtherDir]
    /\ alive = TRUE
    /\ handles = <<>>
    /\ pc = [c \in Callers |-> "start"]
    /\ arg = [c \in Callers |-> Cwd]
    /\ stream = [c \in Callers |-> NoStream]
    /\ phase = [c \in Callers |-> "none"]
    /\ requested = [c \in Callers |-> 0]
    /\ yielded = [c \in Callers |-> <<>>]
    /\ log = <<>>

\* ------------------------------------------------------------- actions
\* vfs.list_files(p).await by caller c.  A failed open panics in unwrap and
\* the process terminates; the OS then closes whatever it had open.
ListFiles(c, p) ==
    /\ alive
    /\ pc[c] = "start"
    /\ LET r == list_files(p, handles)
       IN  IF r.panic
           THEN /\ alive' = FALSE
                /\ pc' = [pc EXCEPT ![c] = "panicked"]
                /\ handles' = CloseAll(handles)
                /\ UNCHANGED <<stream, phase>>
           ELSE /\ pc' = [pc EXCEPT ![c] = "loop"]
                /\ stream' = [stream EXCEPT ![c] = r.stream]
                /\ phase' = [phase EXCEPT ![c] = "not started"]
                /\ handles' = r.handles
                /\ UNCHANGED alive
    /\ arg' = [arg EXCEPT ![c] = p]
    /\ UNCHANGED <<fs, requested, yielded, log>>

\* A mutation of LoopContinues: while let Some(Ok(path)) = ...
LoopContinues_ok_only(item) == item.tag = "Ok"

\* while let Some(path) = stream.next().await
LoopContinues(item) == item # None

\* stream.next().await by caller c: one poll of its stream to completion.
\* `after` is where the caller goes when its loop ends.
StreamNext(c, after) ==
    /\ alive
    /\ pc[c] = "loop"
    /\ LET r == poll_next(stream[c], handles)
       IN  /\ handles' = r.handles
           /\ requested' = [requested EXCEPT ![c] = @ + 1]
           /\ yielded' = [yielded EXCEPT ![c] = IF r.item = None THEN @ ELSE Append(@, r.item)]
           /\ phase' = [phase EXCEPT ![c] = IF r.item = None THEN "exhausted" ELSE "producing"]
           /\ pc' = [pc EXCEPT ![c] = IF LoopContinues(r.item) THEN "loop" ELSE after]
    /\ UNCHANGED <<fs, alive, arg, stream>>

\* main, up to the stream: current_dir() and vfs.list_files(&root).await
MainListFiles ==
    /\ ListFiles(Main, Cwd)

\* main, one turn of the loop: stream.next().await and, for an element,
\* tracing::info!(?path)
MainLoop ==
    /\ StreamNext(Main, "after loop")
    /\ LET item == poll_next(stream[Main], handles).item
       IN  log' = IF LoopContinues(item) THEN Append(log, InfoPath(item)) ELSE log

\* main, after the loop: tracing::info!("done"), then the stream goes out of
\* scope and main returns.
MainDone ==
    /\ alive
    /\ pc[Main] = "after loop"
    /\ log' = Append(log, InfoDone)
    /\ handles' = drop(stream[Main], handles)
    /\ pc' = [pc EXCEPT ![Main] = "exit"]
    /\ UNCHANGED <<fs, alive, arg, stream, phase, requested, yielded>>

Next == MainListFiles \/ MainLoop \/ MainDone

Spec == Init /\ [][Next]_vars

\* ------------------------------------------- several callers, one provider
\* A caller asks its stream for the next element, as main's loop does.
CallerNext(c) ==
    /\ StreamNext(c, "finished")
    /\ UNCHANGED log

\* A caller lets go of its stream, exhausted or not.
CallerDrop(c) ==
    /\ alive
    /\ pc[c] \in {"loop", "finished"}
    /\ handles' = drop(stream[c], handles)
    /\ pc' = [pc EXCEPT ![c] = "dropped"]
    /\ UNCHANGED <<fs, alive, arg, stream, phase, requested, yielded, log>>

NextConc ==
    \E c \in Callers :
        \/ \E p \in Paths : ListFiles(c, p)
        \/ CallerNext(c)
        \/ CallerDrop(c)

SpecConc == Init /\ [][NextConc]_vars

\* ============================================================== claims
HasStream(c) == stream[c] # NoStream
\* The OS handle behind caller c's stream, and the scan it walks.
HandleOf(c) == handles[stream[c].fd]
ScanOf(c) == fs[arg[c]].scan
\* A directory that opens and whose scan reports no per-entry failure.
Stable(p) == fs[p].kind = "dir" /\ \A i \in 1..Len(fs[p].scan) : fs[p].scan[i].tag = "Ok"
ChildrenOf(p) == {<<p, fs[p].scan[i].name>> : i \in 1..Len(fs[p].scan)}
Failures(s) == Cardinality({i \in 1..Len(s) : s[i].tag = "Err"})
Prefix(s, n) == [i \in 1..n |-> s[i]]

\* C1: over a directory of N entries that does not change during the scan,
\* the sequence yields only successes, each a distinct direct child of the
\* input directory, never more than N, and once it has ended exactly the N
\* children, none twice and none missing (for N = 0: nothing, and no error).
C1_ExactlyTheEntries ==
    \A c \in Callers :
        (HasStream(c) /\ Stable(arg[c])) =>
            LET ys == yielded[c]
                n == Len(ScanOf(c))
            IN  /\ Len(ys) <= n
                /\ \A i \in 1..Len(ys) :
                      /\ ys[i].tag = "Ok"
                      /\ ys[i].path \in ChildrenOf(arg[c])
                /\ \A i, j \in 1..Len(ys) : i # j => ys[i] # ys[j]
                /\ phase[c] = "exhausted" =>
                      /\ Len(ys) = n
                      /\ {ys[i].path : i \in 1..Len(ys)} = ChildrenOf(arg[c])
                      /\ pc[c] # "panicked"

C1_Witness ==
    \E c \in Callers :
        /\ HasStream(c) /\ Stable(arg[c])
        /\ phase[c] = "exhausted"
        /\ Len(yielded[c]) = 2

\* C2: an entry the OS iterator fails on becomes exactly one failed element,
\* the underlying error under the context "context", and the sequence goes
\* on with the later entries: it ends only when the whole scan is through.
C2_FailedElementThenOn ==
    \A c \in Callers :
        HasStream(c) =>
            LET ys == yielded[c]
            IN  /\ Len(ys) <= Len(ScanOf(c))
                /\ \A i \in 1..Len(ys) :
                      /\ ScanOf(c)[i].tag = "Err" =>
                            ys[i] = PathErr("context", ScanOf(c)[i].error)
                      /\ ScanOf(c)[i].tag = "Ok" => ys[i].tag = "Ok"
                /\ Failures(ys) = Failures(Prefix(ScanOf(c), Len(ys)))
                /\ phase[c] = "exhausted" => Len(ys) = Len(ScanOf(c))

C2_Witness ==
    \E c \in Callers :
        /\ HasStream(c)
        /\ phase[c] = "exhausted"
        /\ Len(yielded[c]) >= 2
        /\ \E i \in 1..(Len(yielded[c]) - 1) :
              /\ yielded[c][i].tag = "Err"
              /\ yielded[c][i + 1].tag = "Ok"

\* C3: a call of list_files on a path that does not exist leaves the
\* process running and hands its caller a sequence that reports "not found".
C3_NotFoundIsReported ==
    \A c \in Callers :
        (pc[c] # "start" /\ fs[arg[c]].kind = "NotFound") =>
            /\ alive
            /\ pc[c] # "panicked"
            /\ HasStream(c)
            /\ phase[c] = "exhausted" =>
                  \E i \in 1..Len(yielded[c]) :
                      yielded[c][i].tag = "Err" /\ yielded[c][i].source = "NotFound"

PhaseRank(ph) ==
    IF ph = "none" THEN 0
    ELSE IF ph = "not started" THEN 1
    ELSE IF ph = "producing" THEN 2
    ELSE 3

C5_ForwardStep ==
    \A c \in Callers :
        /\ PhaseRank(phase'[c]) >= PhaseRank(phase[c])
        /\ phase[c] \in {"producing", "exhausted"} => phase'[c] # "not started"
        /\ phase[c] = "exhausted" =>
              /\ phase'[c] = "exhausted"
              /\ yielded'[c] = yielded[c]

C5_ExhaustedIffOsEnd ==
    \A c \in Callers :
        /\ HasStream(c) => (phase[c] = "exhausted" <=> HandleOf(c).eof)
        /\ HasStream(c) => (HandleOf(c).eof => HandleOf(c).pos = Len(ScanOf(c)))
        /\ ~HasStream(c) => phase[c] = "none"

C5_ForwardOnly == []C5_ExhaustedIffOsEnd /\ [][C5_ForwardStep]_vars

C5_Witness ==
    \E c \in Callers :
        /\ HasStream(c)
        /\ phase[c] = "exhausted"
        /\ HandleOf(c).eof
        /\ \E i \in 1..Len(yielded[c]) : yielded[c][i].tag = "Err"

\* C6: when the current directory opens, main logs one info line per
\* element, failed or not, in the order produced, and then one "done" line;
\* "done" comes only once the sequence is exhausted, after every element's
\* line, and the loop ends for no other reason than exhaustion.
ElementLines(ys) == [i \in 1..Len(ys) |-> InfoPath(ys[i])]

C6_LogPerElementThenDone ==
    fs[Cwd].kind = "dir" =>
        /\ pc[Main] \in {"start", "loop", "after loop", "exit"}
        /\ pc[Main] \in {"start", "loop", "after loop"} =>
              log = ElementLines(yielded[Main])
        /\ pc[Main] = "exit" =>
              log = Append(ElementLines(yielded[Main]), InfoDone)
        /\ pc[Main] \in {"after loop", "exit"} =>
              /\ phase[Main] = "exhausted"
              /\ Len(yielded[Main]) = Len(fs[Cwd].scan)
        /\ \A i \in 1..Len(log) :
              log[i] = InfoDone => (i = Len(log) /\ phase[Main] = "exhausted")

C6_Witness ==
    /\ fs[Cwd].kind = "dir"
    /\ pc[Main] = "exit"
    /\ Len(log) = 4
    /\ log[4] = InfoDone
    /\ \E i \in 1..3 : yielded[Main][i].tag = "Err"

\* C7: concurrent callers each hold a sequence over an OS handle of their
\* own: a sequence's position and elements follow from its own requests
\* alone, whatever the other callers do, and a sequence that has ended has
\* produced every entry of its directory's scan.
C7_IndependentSequences ==
    \A c \in Callers :
        HasStream(c) =>
            /\ stream[c].fd \in 1..Len(handles)
            /\ \A d \in Callers \ {c} : HasStream(d) => stream[d].fd # stream[c].fd
            /\ HandleOf(c).path = arg[c]
            /\ HandleOf(c).fetches = requested[c]
            /\ HandleOf(c).pos = Len(yielded[c])
            /\ Len(yielded[c]) <= Len(ScanOf(c))
            /\ yielded[c] = [i \in 1..Len(yielded[c]) |-> closure(ScanOf(c)[i])]
            /\ requested[c] <= Len(ScanOf(c)) => Len(yielded[c]) = requested[c]
            /\ phase[c] = "exhausted" => Len(yielded[c]) = Len(ScanOf(c))

\* Two callers on the same directory, one gone ahead and dropped or ended,
\* the other still behind it.
C7_Witness ==
    \E c, d \in Callers :
        /\ c # d
        /\ HasStream(c) /\ HasStream(d)
        /\ arg[c] = arg[d]
        /\ pc[c] \in {"finished", "dropped"}
        /\ phase[c] = "exhausted"
        /\ pc[d] = "loop"
        /\ Len(yielded[d]) >= 1
        /\ Len(yielded[d]) < Len(yielded[c])

C9_HandlesClosed ==
    /\ \A c \in Callers : pc[c] \in {"dropped", "exit"} => ~HandleOf(c).open
    /\ ~alive => \A i \in 1..Len(handles) : ~handles[i].open
    /\ \A i \in 1..Len(handles) :
          handles[i].open =>
              \E c \in Callers :
                  stream[c].fd = i /\ pc[c] \in {"loop", "finished", "after loop"}

C9_DroppedStep ==
    \A c \in Callers :
        pc[c] \in {"dropped", "exit"} =>
            /\ pc'[c] = pc[c]
            /\ yielded'[c] = yielded[c]
            /\ requested'[c] = requested[c]

C9_ReleasedOnDrop == []C9_HandlesClosed /\ [][C9_DroppedStep]_vars

C9_Witness ==
    \E c \in Callers :
        /\ pc[c] = "dropped"
        /\ phase[c] = "producing"
        /\ Len(yielded[c]) < Len(ScanOf(c))
        /\ ~HandleOf(c).open

\* C10: when the current directory does not open, the program stops inside
\* list_files: main gets no sequence, and logs neither an element nor "done".
C10_OpenFailureHalts ==
    /\ fs[Cwd].kind # "dir" =>
          /\ pc[Main] \in {"start", "panicked"}
          /\ stream[Main] = NoStream
          /\ handles = <<>>
          /\ yielded[Main] = <<>>
          /\ log = <<>>
    /\ pc[Main] = "panicked" <=> ~alive
    /\ pc[Main] = "panicked" => fs[Cwd].kind \in OpenErrors

C10_Witness ==
    /\ pc[Main] = "panicked"
    /\ ~alive
    /\ fs[Cwd].kind = "PermissionDenied"
    /\ log = <<>>

====
